---- MODULE Spec2Model ----
(***************************************************************************)
(* Release-notes application (src/main.py): Flask handlers over four       *)
(* SQLAlchemy tables (product, release, release_item, merge_request).      *)
(* The database is the default one, SQLite (main.py:27): identifiers are   *)
(* rowids (max+1), lower() folds ASCII letters only, and foreign keys are  *)
(* not enforced by the engine, so the cascades are the ORM's.              *)
(* Text is a sequence of one-character strings; an optional value is a set *)
(* with no element (None) or one element.                                  *)
(***************************************************************************)
EXTENDS Integers, Sequences, FiniteSets, TLC

VARIABLES products, releases, items, mrs, last, engine, inflight

vars == <<products, releases, items, mrs, last, engine, inflight>>

(* Optional values *)

None == {}

Some(x) == {x}

The(o) == CHOOSE x \in o : TRUE

-----------------------------------------------------------------------------
(* Text helpers (Python str methods, SQL functions) *)

AsciiUpper == <<"A","B","C","D","E","F","G","H","I","J","K","L","M",
                "N","O","P","Q","R","S","T","U","V","W","X","Y","Z">>

AsciiLower == <<"a","b","c","d","e","f","g","h","i","j","k","l","m",
                "n","o","p","q","r","s","t","u","v","w","x","y","z">>

\* Cased letters outside ASCII that Portuguese names use.
LatinUpper == <<"Á","Â","Ã","À","Ç","É","Ê","Í","Ó","Ô","Õ","Ú">>

LatinLower == <<"á","â","ã","à","ç","é","ê","í","ó","ô","õ","ú">>

Whitespace == {" ", "\t", "\n", "\r", "\f"}

IndexOf(c, seq) == CHOOSE i \in 1..Len(seq) : seq[i] = c

InSeq(c, seq) == \E i \in 1..Len(seq) : seq[i] = c

\* SQL lower() as SQLite evaluates it: ASCII letters only.
SqlLowerChar(c) == IF InSeq(c, AsciiUpper) THEN AsciiLower[IndexOf(c, AsciiUpper)] ELSE c

\* str.lower(): Unicode case mapping.
PyLowerChar(c) ==
  IF InSeq(c, AsciiUpper) THEN AsciiLower[IndexOf(c, AsciiUpper)]
  ELSE IF InSeq(c, LatinUpper) THEN LatinLower[IndexOf(c, LatinUpper)]
  ELSE c

SqlLower(s) == [i \in 1..Len(s) |-> SqlLowerChar(s[i])]

PyLower(s) == [i \in 1..Len(s) |-> PyLowerChar(s[i])]

RECURSIVE LStrip(_)
LStrip(s) == IF s # <<>> /\ Head(s) \in Whitespace THEN LStrip(Tail(s)) ELSE s

RECURSIVE RStrip(_)
RStrip(s) ==
  IF s # <<>> /\ s[Len(s)] \in Whitespace THEN RStrip(SubSeq(s, 1, Len(s) - 1)) ELSE s

\* str.strip()
Strip(s) == RStrip(LStrip(s))

\* `x.strip() or None`
StripOrNone(s) == IF Strip(s) = <<>> THEN None ELSE Some(Strip(s))

\* Equality ignoring letter case, as a reader of the stored records sees it.
EqIgnoreCase(s, t) == PyLower(s) = PyLower(t)

-----------------------------------------------------------------------------
(* Tables *)

Ids(table) == {row.id : row \in table}

Max(S) == CHOOSE x \in S : \A y \in S : y <= x

\* INTEGER PRIMARY KEY without AUTOINCREMENT: one more than the largest rowid.
NextId(table) == IF table = {} THEN 1 ELSE Max(Ids(table)) + 1

Row(table, id) == CHOOSE row \in table : row.id = id

-----------------------------------------------------------------------------
(* The outcome of the request just served *)

\* `gone` counts the items and the merge requests the request deleted.
Outcome(op, id, form, result, gone) ==
  [op |-> op, id |-> id, form |-> form, result |-> result, gone |-> gone]

Nothing == <<0, 0>>

NoForm == [none |-> TRUE]

-----------------------------------------------------------------------------
(* Products *)

On == <<"o","n">>

\* Some stored product other than `self` matches by the handler's query:
\* func.lower(column) evaluated by the database against value.lower().
NameTaken(name, self) ==
  \E p \in products : p.id \notin self /\ SqlLower(p.name) = PyLower(name)

CodeTaken(code, self) ==
  \E p \in products : p.id \notin self /\ SqlLower(p.code) = PyLower(code)

\* uq_product_name, uq_product_code: the table's UNIQUE constraints compare the
\* stored text exactly.
UniqueConstraintFails(name, code, self) ==
  \E p \in products : p.id \notin self /\ (p.name = name \/ p.code = code)

ProductResult(f, self) ==
  LET name == Strip(f.name)
      code == Strip(f.code)
  IN IF name = <<>> THEN "name_required"
     ELSE IF code = <<>> THEN "code_required"
     ELSE IF NameTaken(name, self) THEN "name_taken"
     ELSE IF CodeTaken(code, self) THEN "code_taken"
     ELSE IF UniqueConstraintFails(name, code, self) THEN "integrity_error"
     ELSE "ok"

ProductRow(id, f) ==
  [id |-> id, name |-> Strip(f.name), code |-> Strip(f.code),
   description |-> StripOrNone(f.description), active |-> (f.active = Some(On))]

new_product(f) ==
  LET result == ProductResult(f, {})
      id == NextId(products)
  IN /\ products' = IF result = "ok" THEN products \cup {ProductRow(id, f)} ELSE products
     /\ last' = Outcome("new_product", IF result = "ok" THEN id ELSE 0, f, result, Nothing)
     /\ UNCHANGED <<releases, items, mrs, engine, inflight>>

edit_product(product_id, f) ==
  /\ product_id \in Ids(products)
  /\ LET p == Row(products, product_id)
           result == ProductResult(f, {product_id})
       IN /\ products' = IF result = "ok"
                         THEN (products \ {p}) \cup {ProductRow(p.id, f)}
                         ELSE products
          /\ last' = Outcome("edit_product", product_id, f, result, Nothing)
          /\ UNCHANGED <<releases, items, mrs, engine, inflight>>

\* Mutant: ondelete="SET NULL" applies instead of the cascade.
delete_product_set_null(product_id) ==
  /\ product_id \in Ids(products)
  /\ LET gone == {it \in items : it.product_id = Some(product_id)}
       IN /\ products' = products \ {Row(products, product_id)}
          /\ items' = (items \ gone) \cup {[it EXCEPT !.product_id = None] : it \in gone}
          /\ mrs' = mrs
          /\ last' = Outcome("delete_product", product_id, NoForm, "ok",
                            <<Cardinality(gone), Cardinality(mrs) - Cardinality(mrs')>>)
          /\ UNCHANGED <<releases, engine, inflight>>

\* Product.items has cascade="all, delete": the ORM deletes the items that
\* reference the product, and through ReleaseItem.mrs their merge requests.
delete_product(product_id) ==
  /\ product_id \in Ids(products)
  /\ LET gone == {it \in items : it.product_id = Some(product_id)}
       IN /\ products' = products \ {Row(products, product_id)}
          /\ items' = items \ gone
          /\ mrs' = {m \in mrs : m.item_id \notin Ids(gone)}
          /\ last' = Outcome("delete_product", product_id, NoForm, "ok",
                            <<Cardinality(gone), Cardinality(mrs) - Cardinality(mrs')>>)
          /\ UNCHANGED <<releases, engine, inflight>>

-----------------------------------------------------------------------------
(* Dates *)

Digits == <<"0","1","2","3","4","5","6","7","8","9">>

IsDigit(c) == InSeq(c, Digits)

DigitVal(c) == IndexOf(c, Digits) - 1

RECURSIVE ToInt(_)
ToInt(s) == IF s = <<>> THEN 0 ELSE 10 * ToInt(SubSeq(s, 1, Len(s) - 1)) + DigitVal(s[Len(s)])

\* Mutant: the separators are not checked.
MatchesDateBr_any_separator(s) ==
  /\ Len(s) = 10
  /\ \A i \in {1, 2, 4, 5, 7, 8, 9, 10} : IsDigit(s[i])

\* DATE_BR_RE = ^(\d{2})/(\d{2})/(\d{4})$
MatchesDateBr(s) ==
  /\ Len(s) = 10
  /\ s[3] = "/" /\ s[6] = "/"
  /\ \A i \in {1, 2, 4, 5, 7, 8, 9, 10} : IsDigit(s[i])

IsLeap(y) == (y % 4 = 0 /\ y % 100 # 0) \/ y % 400 = 0

DaysInMonth(y, m) ==
  IF m = 2 THEN (IF IsLeap(y) THEN 29 ELSE 28)
  ELSE IF m \in {4, 6, 9, 11} THEN 30 ELSE 31

\* Mutant: every month has 31 days.
ValidDate_31_days(y, m, d) ==
  /\ y >= 1 /\ y <= 9999
  /\ m >= 1 /\ m <= 12
  /\ d >= 1 /\ d <= 31

\* datetime.date(y, m, d) raises ValueError outside these ranges.
ValidDate(y, m, d) ==
  /\ y >= 1 /\ y <= 9999
  /\ m >= 1 /\ m <= 12
  /\ d >= 1 /\ d <= DaysInMonth(y, m)

\* The date on success, the kind of ValueError otherwise.
parse_date_br(value) ==
  IF value = <<>> THEN [ok |-> FALSE, error |-> "date_required"]
  ELSE LET s == Strip(value)
       IN IF ~MatchesDateBr(s) THEN [ok |-> FALSE, error |-> "date_format"]
          ELSE LET d == ToInt(SubSeq(s, 1, 2))
                   mth == ToInt(SubSeq(s, 4, 5))
                   y == ToInt(SubSeq(s, 7, 10))
               IN IF ValidDate(y, mth, d)
                  THEN [ok |-> TRUE, date |-> [y |-> y, m |-> mth, d |-> d]]
                  ELSE [ok |-> FALSE, error |-> "date_invalid"]

-----------------------------------------------------------------------------
(* Releases *)

ReleaseResult(f) ==
  IF Strip(f.title) = <<>> THEN "title_required"
  ELSE LET parsed == parse_date_br(Strip(f.release_date))
       IN IF parsed.ok THEN "ok" ELSE parsed.error

ReleaseRow(id, f) ==
  [id |-> id, title |-> Strip(f.title),
   release_date |-> parse_date_br(Strip(f.release_date)).date,
   notes |-> StripOrNone(f.notes)]

new_release(f) ==
  LET result == ReleaseResult(f)
      id == NextId(releases)
  IN /\ releases' = IF result = "ok" THEN releases \cup {ReleaseRow(id, f)} ELSE releases
     /\ last' = Outcome("new_release", IF result = "ok" THEN id ELSE 0, f, result, Nothing)
     /\ UNCHANGED <<products, items, mrs, engine, inflight>>

edit_release(release_id, f) ==
  /\ release_id \in Ids(releases)
  /\ LET r == Row(releases, release_id)
           result == ReleaseResult(f)
       IN /\ releases' = IF result = "ok"
                         THEN (releases \ {r}) \cup {ReleaseRow(r.id, f)}
                         ELSE releases
          /\ last' = Outcome("edit_release", release_id, f, result, Nothing)
          /\ UNCHANGED <<products, items, mrs, engine, inflight>>

\* Mutant: the items go, their merge requests stay.
delete_release_leaving_mrs(release_id) ==
  /\ release_id \in Ids(releases)
  /\ LET gone == {it \in items : it.release_id = release_id}
       IN /\ releases' = releases \ {Row(releases, release_id)}
          /\ items' = items \ gone
          /\ mrs' = mrs
          /\ last' = Outcome("delete_release", release_id, NoForm, "ok",
                            <<Cardinality(gone), Cardinality(mrs) - Cardinality(mrs')>>)
          /\ UNCHANGED <<products, engine, inflight>>

\* Release.items has cascade="all, delete-orphan": the ORM deletes the release's
\* items, and through ReleaseItem.mrs their merge requests.
delete_release(release_id) ==
  /\ release_id \in Ids(releases)
  /\ LET gone == {it \in items : it.release_id = release_id}
       IN /\ releases' = releases \ {Row(releases, release_id)}
          /\ items' = items \ gone
          /\ mrs' = {m \in mrs : m.item_id \notin Ids(gone)}
          /\ last' = Outcome("delete_release", release_id, NoForm, "ok",
                            <<Cardinality(gone), Cardinality(mrs) - Cardinality(mrs')>>)
          /\ UNCHANGED <<products, engine, inflight>>

-----------------------------------------------------------------------------
(* URLs and merge-request references *)

UrlMax == 300

StartsWithAt(s, i, prefix) ==
  /\ i + Len(prefix) - 1 <= Len(s)
  /\ \A k \in 1..Len(prefix) : s[i + k - 1] = prefix[k]

StartsWith(s, prefix) == StartsWithAt(s, 1, prefix)

Take(s, n) == SubSeq(s, 1, IF Len(s) < n THEN Len(s) ELSE n)

HttpPrefix == <<"h","t","t","p",":","/","/">>

HttpsPrefix == <<"h","t","t","p","s",":","/","/">>

\* Mutant: only "http://" counts as a scheme.
norm_url_http_only(u) ==
  IF u = None \/ The(u) = <<>> THEN None
  ELSE LET t == Strip(The(u))
       IN IF t = <<>> THEN None
          ELSE IF StartsWith(t, HttpPrefix)
               THEN Some(Take(t, UrlMax))
               ELSE Some(Take(HttpsPrefix \o t, UrlMax))

\* Mutant: the result is not cut.
norm_url_uncut(u) ==
  IF u = None \/ The(u) = <<>> THEN None
  ELSE LET t == Strip(The(u))
       IN IF t = <<>> THEN None
          ELSE IF StartsWith(t, HttpPrefix) \/ StartsWith(t, HttpsPrefix)
               THEN Some(t)
               ELSE Some(HttpsPrefix \o t)

norm_url(u) ==
  IF u = None \/ The(u) = <<>> THEN None
  ELSE LET t == Strip(The(u))
       IN IF t = <<>> THEN None
          ELSE IF StartsWith(t, HttpPrefix) \/ StartsWith(t, HttpsPrefix)
               THEN Some(Take(t, UrlMax))
               ELSE Some(Take(HttpsPrefix \o t, UrlMax))

GitlabHost == <<"g","i","t","l","a","b",".","c","o","m","/">>

DashMergeRequests == <<"/","-","/","m","e","r","g","e","_","r","e","q","u","e","s","t","s","/">>

SlashMergeRequests == <<"/","/","m","e","r","g","e","_","r","e","q","u","e","s","t","s","/">>

\* The end of the longest run of non-"/" characters from position i on;
\* i - 1 when the run is empty.
SegmentEnd(s, i) ==
  LET stops == {j \in i..Len(s) : s[j] = "/"}
  IN IF i > Len(s) THEN i - 1
     ELSE IF stops = {} THEN Len(s)
     ELSE (CHOOSE j \in stops : \A k \in stops : j <= k) - 1

RECURSIVE DigitsEnd(_, _)
DigitsEnd(s, i) == IF i <= Len(s) /\ IsDigit(s[i]) THEN DigitsEnd(s, i + 1) ELSE i - 1

\* gitlab\.com/([^/]+/[^/]+)/-?/merge_requests/(\d+) matched at position i.
\* Each [^/]+ must run up to the next "/", so the groups are determined.
MrMatchAt(u, i) ==
  IF ~StartsWithAt(u, i, GitlabHost) THEN None
  ELSE LET a == i + Len(GitlabHost)
           aEnd == SegmentEnd(u, a)
           b == aEnd + 2
           bEnd == SegmentEnd(u, b)
           c == bEnd + 1
           n == IF StartsWithAt(u, c, DashMergeRequests) THEN c + Len(DashMergeRequests)
                ELSE IF StartsWithAt(u, c, SlashMergeRequests) THEN c + Len(SlashMergeRequests)
                ELSE 0
       IN IF /\ aEnd >= a
             /\ aEnd + 1 <= Len(u) /\ u[aEnd + 1] = "/"
             /\ bEnd >= b
             /\ n > 0
             /\ DigitsEnd(u, n) >= n
          THEN Some([repo |-> SubSeq(u, a, bEnd), iid |-> <<"!">> \o SubSeq(u, n, DigitsEnd(u, n))])
          ELSE None

\* re.search: the match at the leftmost position that has one.
MrSearch(u) ==
  LET hits == {i \in 1..Len(u) : MrMatchAt(u, i) # None}
  IN IF hits = {} THEN None
     ELSE MrMatchAt(u, CHOOSE i \in hits : \A j \in hits : i <= j)

LineBreaks == {"\n", "\r", "\f"}

\* str.splitlines(): "\r\n" is one break, and no empty last line.
RECURSIVE SplitLines(_)
SplitLines(s) ==
  IF s = <<>> THEN <<>>
  ELSE LET breaks == {i \in 1..Len(s) : s[i] \in LineBreaks}
       IN IF breaks = {} THEN <<s>>
          ELSE LET i == CHOOSE k \in breaks : \A j \in breaks : k <= j
                   skip == IF s[i] = "\r" /\ i < Len(s) /\ s[i + 1] = "\n" THEN 2 ELSE 1
               IN <<SubSeq(s, 1, i - 1)>> \o SplitLines(SubSeq(s, i + skip, Len(s)))

-----------------------------------------------------------------------------
(* Release items and their merge requests *)

Statuses == {"Planejado", "Em andamento", "Entregue", "Cancelado"}

\* The normalized URLs of the non-blank lines, in order.
RECURSIVE MrUrls(_)
MrUrls(lines) ==
  IF lines = <<>> THEN <<>>
  ELSE LET u == norm_url(Some(Head(lines)))
       IN (IF u = None THEN <<>> ELSE <<The(u)>>) \o MrUrls(Tail(lines))

\* Mutant: iid is the digits alone.
MrRow_bare_iid(id, item_id, u) ==
  LET m == MrSearch(u)
  IN [id |-> id, item_id |-> item_id, url |-> u,
      repo |-> IF m = None THEN None ELSE Some(The(m).repo),
      iid |-> IF m = None THEN None ELSE Some(Tail(The(m).iid))]

MrRow(id, item_id, u) ==
  LET m == MrSearch(u)
  IN [id |-> id, item_id |-> item_id, url |-> u,
      repo |-> IF m = None THEN None ELSE Some(The(m).repo),
      iid |-> IF m = None THEN None ELSE Some(The(m).iid)]

\* One MergeRequest per URL, inserted in order into `table`.
NewMrs(item_id, urls, table) ==
  {MrRow(NextId(table) + k - 1, item_id, urls[k]) : k \in 1..Len(urls)}

ItemRow(id, release_id, f) ==
  [id |-> id, release_id |-> release_id,
   product_id |-> IF f.product_id = None \/ The(f.product_id) = 0 THEN None ELSE f.product_id,
   title |-> Strip(f.title),
   description |-> StripOrNone(f.description),
   clickup_url |-> norm_url(f.clickup_url),
   status |-> IF f.status = None THEN "Planejado" ELSE The(f.status)]

ItemResult(f) == IF Strip(f.title) = <<>> THEN "title_required" ELSE "ok"

new_item(release_id, f) ==
  /\ release_id \in Ids(releases)
  /\ LET result == ItemResult(f)
           id == NextId(items)
           urls == MrUrls(SplitLines(f.mr_urls))
       IN /\ items' = IF result = "ok" THEN items \cup {ItemRow(id, release_id, f)} ELSE items
          /\ mrs' = IF result = "ok" THEN mrs \cup NewMrs(id, urls, mrs) ELSE mrs
          /\ last' = Outcome("new_item", IF result = "ok" THEN id ELSE 0, f, result, Nothing)
          /\ UNCHANGED <<products, releases, engine, inflight>>

\* Mutant: the submitted merge requests are added to the existing ones.
edit_item_appending(item_id, f) ==
  /\ item_id \in Ids(items)
  /\ LET it == Row(items, item_id)
           result == ItemResult(f)
           urls == MrUrls(SplitLines(f.mr_urls))
           kept == mrs
       IN /\ items' = IF result = "ok"
                      THEN (items \ {it}) \cup {ItemRow(it.id, it.release_id, f)}
                      ELSE items
          /\ mrs' = IF result = "ok" THEN kept \cup NewMrs(it.id, urls, kept) ELSE mrs
          /\ last' = Outcome("edit_item", item_id, f, result,
                            IF result = "ok" THEN <<0, Cardinality(mrs \ kept)>> ELSE Nothing)
          /\ UNCHANGED <<products, releases, engine, inflight>>

\* Mutant: the existing merge requests are deleted before the title is checked.
edit_item_deleting_first(item_id, f) ==
  /\ item_id \in Ids(items)
  /\ LET it == Row(items, item_id)
           result == ItemResult(f)
           urls == MrUrls(SplitLines(f.mr_urls))
           kept == {m \in mrs : m.item_id # it.id}
       IN /\ items' = IF result = "ok"
                      THEN (items \ {it}) \cup {ItemRow(it.id, it.release_id, f)}
                      ELSE items
          /\ mrs' = IF result = "ok" THEN kept \cup NewMrs(it.id, urls, kept) ELSE kept
          /\ last' = Outcome("edit_item", item_id, f, result,
                            IF result = "ok" THEN <<0, Cardinality(mrs \ kept)>> ELSE Nothing)
          /\ UNCHANGED <<products, releases, engine, inflight>>

edit_item(item_id, f) ==
  /\ item_id \in Ids(items)
  /\ LET it == Row(items, item_id)
           result == ItemResult(f)
           urls == MrUrls(SplitLines(f.mr_urls))
           kept == {m \in mrs : m.item_id # it.id}
       IN /\ items' = IF result = "ok"
                      THEN (items \ {it}) \cup {ItemRow(it.id, it.release_id, f)}
                      ELSE items
          /\ mrs' = IF result = "ok" THEN kept \cup NewMrs(it.id, urls, kept) ELSE mrs
          /\ last' = Outcome("edit_item", item_id, f, result,
                            IF result = "ok" THEN <<0, Cardinality(mrs \ kept)>> ELSE Nothing)
          /\ UNCHANGED <<products, releases, engine, inflight>>

\* Mutant: the item's release loses its other items as well.
delete_item_with_siblings(item_id) ==
  /\ item_id \in Ids(items)
  /\ LET gone == {it \in items : it.release_id = Row(items, item_id).release_id}
     IN /\ items' = items \ gone
        /\ mrs' = {m \in mrs : m.item_id \notin Ids(gone)}
        /\ last' = Outcome("delete_item", item_id, NoForm, "ok",
                           <<1, Cardinality(mrs) - Cardinality(mrs')>>)
        /\ UNCHANGED <<products, releases, engine, inflight>>

\* Mutant: the item goes, its merge requests stay.
delete_item_leaving_mrs(item_id) ==
  /\ item_id \in Ids(items)
  /\ /\ items' = items \ {Row(items, item_id)}
       /\ mrs' = mrs
       /\ last' = Outcome("delete_item", item_id, NoForm, "ok",
                         <<1, Cardinality(mrs) - Cardinality(mrs')>>)
       /\ UNCHANGED <<products, releases, engine, inflight>>

\* ReleaseItem.mrs has cascade="all, delete-orphan".
delete_item(item_id) ==
  /\ item_id \in Ids(items)
  /\ /\ items' = items \ {Row(items, item_id)}
       /\ mrs' = {m \in mrs : m.item_id # item_id}
       /\ last' = Outcome("delete_item", item_id, NoForm, "ok",
                         <<1, Cardinality(mrs) - Cardinality(mrs')>>)
       /\ UNCHANGED <<products, releases, engine, inflight>>

-----------------------------------------------------------------------------
(* Submitted forms *)

ProductAx == [name |-> <<" ","a">>, code |-> <<"x">>, description |-> <<" ","d"," ">>, active |-> Some(On)]

ProductAy == [name |-> <<"A">>, code |-> <<"y">>, description |-> <<>>, active |-> None]

ProductBx == [name |-> <<"b">>, code |-> <<"X"," ">>, description |-> <<>>, active |-> Some(On)]

ProductNoName == [name |-> <<" ">>, code |-> <<"x">>, description |-> <<>>, active |-> Some(On)]

ProductNoCode == [name |-> <<"c">>, code |-> <<>>, description |-> <<>>, active |-> Some(On)]

ProductEz == [name |-> <<"é">>, code |-> <<"z">>, description |-> <<>>, active |-> Some(On)]

ProductEw == [name |-> <<"É">>, code |-> <<"w">>, description |-> <<>>, active |-> None]

ProductForms ==
  {ProductAx, ProductAy, ProductBx, ProductNoName, ProductNoCode, ProductEz, ProductEw}

ReleaseFeb == [title |-> <<" ","t">>, release_date |-> <<"2","9","/","0","2","/","2","0","2","4">>, notes |-> <<>>]

ReleaseMar == [title |-> <<"u">>, release_date |-> <<" ","0","1","/","0","3","/","2","0","2","4"," ">>, notes |-> <<"n">>]

ReleaseNoTitle == [title |-> <<" ">>, release_date |-> <<"0","1","/","0","3","/","2","0","2","4">>, notes |-> <<>>]

ReleaseNoDate == [title |-> <<"v">>, release_date |-> <<>>, notes |-> <<>>]

ReleaseShortDate == [title |-> <<"v">>, release_date |-> <<"1","/","3","/","2","0","2","4">>, notes |-> <<>>]

ReleaseBadDate == [title |-> <<"v">>, release_date |-> <<"2","9","/","0","2","/","2","0","2","3">>, notes |-> <<>>]

ReleaseForms ==
  {ReleaseFeb, ReleaseMar, ReleaseNoTitle, ReleaseNoDate, ReleaseShortDate, ReleaseBadDate}

UrlA == <<"h","t","t","p","s",":","/","/","g","i","t","l","a","b",".","c","o","m","/","g","/","p","/","-","/","m","e","r","g","e","_","r","e","q","u","e","s","t","s","/","4","2">>

UrlB == <<"e","x","a","m","p","l","e",".","c","o","m","/","m","r","/","7">>

UrlC == <<"h","t","t","p",":","/","/","h","/","c">>

\* No product, default status, two merge requests and a blank line.
ItemTwoMrs ==
  [product_id |-> None, title |-> <<" ","i">>, description |-> <<>>, clickup_url |-> None,
   status |-> None, mr_urls |-> UrlA \o <<"\r","\n"," ","\n">> \o UrlB \o <<"\n">>]

ItemOneMr ==
  [product_id |-> Some(1), title |-> <<"j">>, description |-> <<"d">>,
   clickup_url |-> Some(<<" ","c",".","u","p","/","1">>), status |-> Some("Entregue"), mr_urls |-> UrlC]

\* A product identifier and a status of the submitter's choosing, no merge request.
ItemNoMr ==
  [product_id |-> Some(2), title |-> <<"k">>, description |-> <<>>, clickup_url |-> Some(<<" ">>),
   status |-> Some("Feito"), mr_urls |-> <<" ">>]

ItemZeroProduct ==
  [product_id |-> Some(0), title |-> <<"i">>, description |-> <<>>, clickup_url |-> None,
   status |-> Some("Cancelado"), mr_urls |-> <<>>]

ItemNoTitle ==
  [product_id |-> Some(2), title |-> <<" ">>, description |-> <<>>, clickup_url |-> None,
   status |-> Some("Em andamento"), mr_urls |-> UrlB]

-----------------------------------------------------------------------------
(* Bounds *)

MaxProducts == 2

MaxReleases == 2

MaxItems == 2

\* Row identifiers grow without bound under create and delete; creation stops
\* at these.
MaxId == 2

MaxMrId == 3

\* The release and item tables of the runs with failing forms.
MaxFormRows == 1

MaxClients == 2

RowIds == 1..MaxId

-----------------------------------------------------------------------------
(* The storage engine and the requests in flight *)

\* DATABASE_URL selects the engine: SQLite unless the environment names a
\* PostgreSQL database. mr_seq is the last value of merge_request's identifier
\* sequence, which only PostgreSQL keeps.
Sqlite == [name |-> "sqlite", mr_seq |-> 0]

Postgresql(mr_seq) == [name |-> "postgresql", mr_seq |-> mr_seq]

\* The server handles each request in a thread of its own.
Clients == 1..MaxClients

Idle == [pc |-> "idle"]

NoRequests == [c \in Clients |-> Idle]

-----------------------------------------------------------------------------
(* Specifications: requests are served one at a time *)

Init ==
  /\ products = {}
  /\ releases = {}
  /\ items = {}
  /\ mrs = {}
  /\ engine = Sqlite
  /\ inflight = NoRequests
  /\ last = Outcome("start", 0, NoForm, "ok", Nothing)

Room(table, max) == Cardinality(table) < max /\ NextId(table) <= MaxId

ProductOps(forms, max) ==
  \/ \E f \in forms : Room(products, max) /\ new_product(f)
  \/ \E id \in RowIds, f \in forms : edit_product(id, f)
  \/ \E id \in RowIds : delete_product(id)

ReleaseOps(forms, max) ==
  \/ \E f \in forms : Room(releases, max) /\ new_release(f)
  \/ \E id \in RowIds, f \in forms : edit_release(id, f)
  \/ \E id \in RowIds : delete_release(id)

ItemOps(forms, max) ==
  \/ \E id \in RowIds, f \in forms :
       Room(items, max) /\ new_item(id, f) /\ \A m \in mrs' : m.id <= MaxMrId
  \/ \E id \in RowIds, f \in forms :
       edit_item(id, f) /\ \A m \in mrs' : m.id <= MaxMrId
  \/ \E id \in RowIds : delete_item(id)

\* The product operations alone, over all the product forms.
NextProducts == ProductOps(ProductForms, MaxProducts)

SpecProducts == Init /\ [][NextProducts]_vars

\* All the operations, over forms that pass validation.
Next ==
  \/ ProductOps({ProductAy, ProductBx}, MaxProducts)
  \/ ReleaseOps({ReleaseFeb}, MaxReleases)
  \/ ItemOps({ItemTwoMrs, ItemOneMr, ItemNoMr}, MaxItems)

Spec == Init /\ [][Next]_vars

\* All the operations, over forms that fail validation as well, on smaller
\* release and item tables.
NextForms ==
  \/ ProductOps(ProductForms \ {ProductEz, ProductEw}, MaxProducts)
  \/ ReleaseOps(ReleaseForms, MaxFormRows)
  \/ ItemOps({ItemTwoMrs, ItemZeroProduct, ItemNoTitle}, MaxFormRows)

SpecForms == Init /\ [][NextForms]_vars

-----------------------------------------------------------------------------
(* Claims about products *)

\* C1: no two distinct stored products have names that are equal ignoring
\* letter case, nor codes that are equal ignoring letter case.
C1_UniqueIgnoringCase ==
  \A p, q \in products :
    p.id # q.id => ~EqIgnoreCase(p.name, q.name) /\ ~EqIgnoreCase(p.code, q.code)

\* The submitted name and code are both present after trimming.
Filled(f) == Strip(f.name) # <<>> /\ Strip(f.code) # <<>>

\* Some stored product other than `self` has the form's trimmed name or code,
\* ignoring letter case.
Clashes(f, self) ==
  \E q \in products :
    /\ q.id \notin self
    /\ EqIgnoreCase(q.name, Strip(f.name)) \/ EqIgnoreCase(q.code, Strip(f.code))

UniquenessViolations == {"name_taken", "code_taken", "integrity_error"}

\* C2: creating a product whose trimmed name or code equals, ignoring letter
\* case, that of a stored product fails with a uniqueness violation and leaves
\* the stored products as they were.
C2_DuplicateCreateRejected ==
  [][(last'.op = "new_product" /\ Filled(last'.form) /\ Clashes(last'.form, {}))
       => (last'.result \in UniquenessViolations /\ products' = products)]_vars

\* C3: an update is rejected with a uniqueness violation exactly when some
\* other product has the same name or code ignoring case; the product's
\* identifier is unchanged by the update.
C3_UpdateChecksOthersOnly ==
  [][(last'.op = "edit_product" /\ Filled(last'.form))
       => /\ (last'.result \in UniquenessViolations) <=> Clashes(last'.form, {last'.id})
          /\ ~Clashes(last'.form, {last'.id}) => last'.result = "ok"
          /\ Ids(products') = Ids(products)]_vars

-----------------------------------------------------------------------------
(* Claims about cascades and ownership *)

MrsOf(owners) == {m \in mrs : m.item_id \in Ids(owners)}

\* C4: deleting a release removes that release, its N items and the merge
\* requests of those items; the three counts drop by exactly 1, N and the
\* number of those merge requests; everything else is left as it was.
C4_DeleteReleaseCascades ==
  [][last'.op = "delete_release"
       => LET r == Row(releases, last'.id)
              own == {it \in items : it.release_id = r.id}
          IN /\ releases' = releases \ {r}
             /\ items' = items \ own
             /\ mrs' = mrs \ MrsOf(own)
             /\ Cardinality(releases') = Cardinality(releases) - 1
             /\ Cardinality(items') = Cardinality(items) - Cardinality(own)
             /\ Cardinality(mrs') = Cardinality(mrs) - Cardinality(MrsOf(own))
             /\ products' = products]_vars

\* A release with two items and their merge requests has been deleted.
C4_Witness ==
  /\ last.op = "delete_release"
  /\ last.gone[1] = 2
  /\ last.gone[2] > 0

\* C5: deleting a product deletes the items that reference it and their merge
\* requests; no stored item keeps the deleted identifier as product reference;
\* the other items are unchanged.
C5_DeleteProductCascades ==
  [][last'.op = "delete_product"
       => LET refs == {it \in items : it.product_id = Some(last'.id)}
          IN /\ items' = items \ refs
             /\ mrs' = mrs \ MrsOf(refs)
             /\ \A it \in items' : it.product_id # Some(last'.id)
             /\ products' = products \ {Row(products, last'.id)}
             /\ releases' = releases]_vars

\* A product referenced by an item with a merge request has been deleted,
\* and an item without product is still stored.
C5_Witness ==
  /\ last.op = "delete_product"
  /\ last.gone[1] > 0
  /\ last.gone[2] > 0
  /\ \E it \in items : it.product_id = None

RECURSIVE InIdOrder(_)
InIdOrder(rows) ==
  IF rows = {} THEN <<>>
  ELSE LET first == CHOOSE r \in rows : \A q \in rows : r.id <= q.id
       IN <<first>> \o InIdOrder(rows \ {first})

NotBlank(line) == Strip(line) # <<>>

\* The normalized URL of each non-blank submitted line, in submitted order.
SubmittedUrls(text) ==
  LET lines == SelectSeq(SplitLines(text), NotBlank)
  IN [k \in 1..Len(lines) |-> The(norm_url(Some(lines[k])))]

\* C6: after an item update the item owns exactly one merge request per
\* non-blank submitted line, in submitted order, with the line's normalized
\* URL, and nothing of what it owned before.
C6_UpdateReplacesMrs ==
  [][(last'.op = "edit_item" /\ last'.result = "ok")
       => LET after == InIdOrder({m \in mrs' : m.item_id = last'.id})
              urls == SubmittedUrls(last'.form.mr_urls)
          IN /\ Len(after) = Len(urls)
             /\ \A k \in 1..Len(urls) : after[k].url = urls[k]]_vars

\* An item that owned two merge requests was updated with the single line urlC.
C6_Witness ==
  /\ last.op = "edit_item"
  /\ last.result = "ok"
  /\ last.form = ItemOneMr
  /\ last.gone[2] = 2
  /\ {m.url : m \in {m \in mrs : m.item_id = last.id}} = {UrlC}

\* C7: every stored item's status is one of the four defined values.
C7_StatusIsDefined == \A it \in items : it.status \in Statuses

\* C8: every stored item belongs to a stored release and every stored merge
\* request to a stored item.
C8_NoOrphans ==
  /\ \A it \in items : it.release_id \in Ids(releases)
  /\ \A m \in mrs : m.item_id \in Ids(items)

\* An item with its merge requests has been deleted while another item with
\* merge requests is stored.
C8_Witness ==
  /\ last.op = "delete_item"
  /\ last.gone[2] > 0
  /\ mrs # {}

\* C9: every stored item's product reference is absent or the identifier of a
\* stored product.
C9_ProductReferenceExists ==
  \A it \in items : it.product_id = None \/ The(it.product_id) \in Ids(products)

-----------------------------------------------------------------------------
(* Claims about validation *)

ValidationFailures ==
  {"name_required", "code_required", "name_taken", "code_taken",
   "title_required", "date_required", "date_format", "date_invalid"}

\* C10: a create or update that fails validation leaves every table as it was.
C10_FailedValidationChangesNothing ==
  [][last'.result \in ValidationFailures
       => /\ products' = products
          /\ releases' = releases
          /\ items' = items
          /\ mrs' = mrs]_vars

\* An update of an item that owns merge requests has failed validation.
C10_Witness ==
  /\ last.op = "edit_item"
  /\ last.result = "title_required"
  /\ \E m \in mrs : m.item_id = last.id

-----------------------------------------------------------------------------
(* Claims about deleting an item *)

\* C11: deleting an item deletes that item and the merge requests it owns and
\* nothing else: releases, the other items, their merge requests and the
\* products are unchanged.
C11_DeleteItemOnly ==
  [][last'.op = "delete_item"
       => LET it == Row(items, last'.id)
          IN /\ items' = items \ {it}
             /\ mrs' = mrs \ MrsOf({it})
             /\ releases' = releases
             /\ products' = products]_vars

\* An item with two merge requests has been deleted; the only release still
\* holds another item with a merge request, and a product is stored.
C11_Witness ==
  /\ last.op = "delete_item"
  /\ last.gone[2] = 2
  /\ Cardinality(releases) = 1
  /\ \E it \in items : MrsOf({it}) # {}
  /\ products # {}

-----------------------------------------------------------------------------
(* Date formatting *)

RECURSIVE ToDigits(_)
ToDigits(n) ==
  IF n < 10 THEN <<Digits[n + 1]>> ELSE ToDigits(n \div 10) \o <<Digits[(n % 10) + 1]>>

RECURSIVE ZeroPad(_, _)
ZeroPad(s, width) == IF Len(s) < width THEN ZeroPad(<<"0">> \o s, width) ELSE s

\* d.strftime("%d/%m/%Y") if d else "".  The C library decides whether %Y pads
\* a year below 1000 with zeros (glibc does not): padYear is that choice.
to_date_br(d, padYear) ==
  IF d = None THEN <<>>
  ELSE ZeroPad(ToDigits(The(d).d), 2) \o <<"/">> \o ZeroPad(ToDigits(The(d).m), 2) \o <<"/">>
       \o (IF padYear THEN ZeroPad(ToDigits(The(d).y), 4) ELSE ToDigits(The(d).y))

-----------------------------------------------------------------------------
(* Specification of the date helpers: parse a text, then format the date *)

DayTexts == {<<"0","0">>, <<"0","1">>, <<"0","9">>, <<"2","8">>, <<"2","9">>, <<"3","0">>, <<"3","1">>, <<"3","2">>}

MonthTexts == {<<"0","0">>, <<"0","1">>, <<"0","2">>, <<"0","4">>, <<"1","2">>, <<"1","3">>}

YearTexts == {<<"0","0","0","0">>, <<"0","0","0","1">>, <<"0","9","9","9">>, <<"1","9","0","0">>, <<"2","0","0","0">>, <<"2","0","2","3">>, <<"2","0","2","4">>, <<"9","9","9","9">>}

OtherDateTexts ==
  { <<>>, <<" ">>,
    <<" ","0","1","/","0","3","/","2","0","2","4">>,
    <<"2","9","/","0","2","/","2","0","2","4"," ">>,
    <<"\t","0","1","/","0","3","/","2","0","2","4","\n">>,
    <<"1","/","3","/","2","0","2","4">>,
    <<"0","1","/","3","/","2","0","2","4">>,
    <<"2","0","2","4","-","0","3","-","0","1">>,
    <<"0","1","-","0","3","-","2","0","2","4">>,
    <<"0","1","/","0","3","/","2","4">>,
    <<"0","1","/","0","3","/","2","0","2","4","5">>,
    <<"a","b","/","c","d","/","e","f","g","h">>,
    <<"0","1","/","0","3"," ","2","0","2","4">> }

DateInputs ==
  {d \o <<"/">> \o m \o <<"/">> \o y : d \in DayTexts, m \in MonthTexts, y \in YearTexts}
    \cup OtherDateTexts

InitDates ==
  /\ products = {}
  /\ releases = {}
  /\ items = {}
  /\ mrs = {}
  /\ engine = Sqlite
  /\ inflight = NoRequests
  /\ \E value \in DateInputs :
       last = Outcome("input", 0, [value |-> value], "pending", Nothing)

ParseDate ==
  /\ last.op = "input"
  /\ LET parsed == parse_date_br(last.form.value)
     IN last' = Outcome("parse_date_br", 0,
                        [value |-> last.form.value,
                         date |-> IF parsed.ok THEN Some(parsed.date) ELSE None],
                        IF parsed.ok THEN "ok" ELSE parsed.error, Nothing)
  /\ UNCHANGED <<products, releases, items, mrs, engine, inflight>>

FormatDate ==
  /\ last.op = "parse_date_br"
  /\ last.result = "ok"
  /\ \E padYear \in BOOLEAN :
       last' = Outcome("to_date_br", 0,
                       [value |-> last.form.value, date |-> last.form.date,
                        text |-> to_date_br(last.form.date, padYear)],
                       "ok", Nothing)
  /\ UNCHANGED <<products, releases, items, mrs, engine, inflight>>

NextDates == ParseDate \/ FormatDate

SpecDates == InitDates /\ [][NextDates]_vars

-----------------------------------------------------------------------------
(* Claims about dates *)

\* Exactly two digits, "/", two digits, "/", four digits.
IsDateShape(s) ==
  /\ Len(s) = 10
  /\ \A i \in 1..10 : IF i \in {3, 6} THEN s[i] = "/" ELSE s[i] \in {Digits[k] : k \in 1..10}

MonthLengths == <<31, 28, 31, 30, 31, 30, 31, 31, 30, 31, 30, 31>>

\* The text, of date shape, names a day of the calendar.
IsCalendarDate(s) ==
  LET d == ToInt(SubSeq(s, 1, 2))
      m == ToInt(SubSeq(s, 4, 5))
      y == ToInt(SubSeq(s, 7, 10))
      leapDay == m = 2 /\ d = 29 /\ (y % 400 = 0 \/ (y % 4 = 0 /\ y % 100 # 0))
  IN /\ y >= 1
     /\ m \in 1..12
     /\ d >= 1
     /\ d <= MonthLengths[m] \/ leapDay

\* C12: for every text DD/MM/YYYY that names a calendar date, formatting the
\* parsed date gives the text back.
C12_FormatParseRoundTrip ==
  (last.op = "to_date_br" /\ IsDateShape(last.form.value) /\ IsCalendarDate(last.form.value))
    => last.form.text = last.form.value

\* Both are the ValueError of an ill-formed date: the pattern's message and
\* datetime.date's own.
BadFormatErrors == {"date_format", "date_invalid"}

\* C13: parse_date_br fails with the missing-value error on empty input and
\* with the bad-format error on a text of date shape that names no calendar
\* date; it returns no date for either.
C13_ParseRejectsNonDates ==
  last.op = "parse_date_br"
    => /\ last.form.value = <<>> => (last.result = "date_required" /\ last.form.date = None)
       /\ (IsDateShape(last.form.value) /\ ~IsCalendarDate(last.form.value))
            => (last.result \in BadFormatErrors /\ last.form.date = None)

\* 31/02/2024 has been refused.
C13_Witness ==
  /\ last.op = "parse_date_br"
  /\ last.form.value = <<"3","1","/","0","2","/","2","0","2","4">>
  /\ last.result \in BadFormatErrors
  /\ last.form.date = None

\* C14 as stated: every input that is not exactly of date shape, the same text
\* with whitespace around it included, is rejected with the bad-format error.
C14_OnlyExactShape ==
  (last.op = "parse_date_br" /\ last.form.value # <<>> /\ ~IsDateShape(last.form.value))
    => last.result = "date_format"

\* C14 amended: a date is returned only for input that is of date shape once
\* the whitespace around it is trimmed; every other non-empty input is rejected
\* with the bad-format error.
C14_OnlyShapeAfterTrim ==
  last.op = "parse_date_br"
    => /\ last.result = "ok" => IsDateShape(Strip(last.form.value))
       /\ (last.form.value # <<>> /\ ~IsDateShape(Strip(last.form.value)))
            => last.result = "date_format"

\* 01-03-2024 has been refused for its format.
C14_Witness ==
  /\ last.op = "parse_date_br"
  /\ last.form.value = <<"0","1","-","0","3","-","2","0","2","4">>
  /\ last.result = "date_format"

-----------------------------------------------------------------------------
(* Specification of the URL normalizer: normalize a text, then the result *)

Rep(c, n) == [i \in 1..n |-> c]

\* Lengths of the run of "a" in the inputs, around the cut.
BodyLengths == {0, 1, UrlMax - 16, UrlMax - 10, UrlMax - 9, UrlMax - 8, UrlMax - 2}

ExampleUrl == <<"e","x","a","m","p","l","e",".","c","o","m","/","p","a","t","h">>

UrlInputs ==
  {None, Some(<<>>), Some(<<" ", "\t">>), Some(ExampleUrl)}
    \cup {Some(lead \o scheme \o Rep("a", n) \o mid \o tail \o trail) :
            lead \in {<<>>, <<" ">>},
            scheme \in {<<>>, HttpPrefix, HttpsPrefix},
            n \in BodyLengths,
            mid \in {<<>>, <<" ">>},
            tail \in {<<>>, <<"b">>, <<"b", "c", "d">>},
            trail \in {<<>>, <<"\n">>}}

InitUrls ==
  /\ products = {}
  /\ releases = {}
  /\ items = {}
  /\ mrs = {}
  /\ engine = Sqlite
  /\ inflight = NoRequests
  /\ \E value \in UrlInputs :
       last = Outcome("input", 0, [value |-> value], "pending", Nothing)

Normalize ==
  /\ last.op = "input"
  /\ last' = Outcome("norm_url", 0,
                     [value |-> last.form.value, once |-> norm_url(last.form.value)],
                     "ok", Nothing)
  /\ UNCHANGED <<products, releases, items, mrs, engine, inflight>>

NormalizeAgain ==
  /\ last.op = "norm_url"
  /\ last' = Outcome("norm_url_again", 0,
                     [value |-> last.form.value, once |-> last.form.once,
                      twice |-> norm_url(last.form.once)],
                     "ok", Nothing)
  /\ UNCHANGED <<products, releases, items, mrs, engine, inflight>>

NextUrls == Normalize \/ NormalizeAgain

SpecUrls == InitUrls /\ [][NextUrls]_vars

-----------------------------------------------------------------------------
(* Claims about norm_url *)

\* C15 as stated: norm_url(norm_url(x)) = norm_url(x) for every non-absent x
\* shorter than 300 characters.
C15_Idempotent ==
  (last.op = "norm_url_again" /\ last.form.value # None /\ Len(The(last.form.value)) < 300)
    => last.form.twice = last.form.once

HasScheme(t) == StartsWith(t, HttpPrefix) \/ StartsWith(t, HttpsPrefix)

\* The trimmed text, with "https://" in front when it has no scheme, fits in
\* 300 characters: nothing is cut.
NothingCut(x) ==
  LET t == Strip(x)
  IN Len(t) + (IF HasScheme(t) THEN 0 ELSE Len(HttpsPrefix)) <= 300

\* C15 amended: norm_url(norm_url(x)) = norm_url(x) for every non-absent x
\* shorter than 300 characters whose normalized form is not cut.
C15_IdempotentWhenNothingCut ==
  (/\ last.op = "norm_url_again"
   /\ last.form.value # None
   /\ Len(The(last.form.value)) < 300
   /\ NothingCut(The(last.form.value)))
    => last.form.twice = last.form.once

\* A text without scheme has been normalized twice, nothing being cut.
C15_Witness ==
  /\ last.op = "norm_url_again"
  /\ last.form.value = Some(ExampleUrl)
  /\ last.form.twice = Some(HttpsPrefix \o ExampleUrl)

AllWhitespace(x) == \A i \in 1..Len(x) : x[i] \in Whitespace

First(x, n) == [i \in 1..(IF Len(x) < n THEN Len(x) ELSE n) |-> x[i]]

\* C16: norm_url returns absent exactly when the input is absent or all
\* whitespace; otherwise the result starts with a scheme, has at most 300
\* characters, and is the first 300 characters of the trimmed input when that
\* has a scheme, of "https://" and the trimmed input when it has none.
C16_NormalizedForm ==
  last.op = "norm_url"
    => LET x == last.form.value
           out == last.form.once
       IN /\ out = None <=> (x = None \/ AllWhitespace(The(x)))
          /\ out # None
               => /\ HasScheme(The(out))
                  /\ Len(The(out)) <= 300
                  /\ The(out) = IF HasScheme(Strip(The(x)))
                                THEN First(Strip(The(x)), 300)
                                ELSE First(HttpsPrefix \o Strip(The(x)), 300)

\* example.com/path has become https://example.com/path.
C16_Witness ==
  /\ last.op = "norm_url"
  /\ last.form.value = Some(ExampleUrl)
  /\ last.form.once = Some(<<"h","t","t","p","s",":","/","/","e","x","a","m","p","l","e",".","c","o","m","/","p","a","t","h">>)

-----------------------------------------------------------------------------
(* Specification of merge-request extraction: items with one merge-request URL *)

GitlabRoot == <<"h","t","t","p","s",":","/","/","g","i","t","l","a","b",".","c","o","m","/">>

MergeRequestsPath == <<"/","m","e","r","g","e","_","r","e","q","u","e","s","t","s","/","4","2">>

UrlGroupProj == GitlabRoot \o <<"g","r","o","u","p","/","p","r","o","j","/","-">> \o MergeRequestsPath

\* A group name that brings the URL to exactly UrlMax characters, and to one more.
UrlFull == GitlabRoot \o Rep("g", UrlMax - 41) \o <<"/","p","/","-">> \o MergeRequestsPath

UrlOverfull == GitlabRoot \o Rep("g", UrlMax - 40) \o <<"/","p","/","-">> \o MergeRequestsPath

UrlNoDash == GitlabRoot \o <<"g","r","o","u","p","/","p","r","o","j">> \o MergeRequestsPath

UrlExample == <<"h","t","t","p","s",":","/","/","e","x","a","m","p","l","e",".","c","o","m","/","m","r","/","4","2">>

UrlNotGitlab == <<"h","t","t","p","s",":","/","/","n","o","t","g","i","t","l","a","b",".","c","o","m","/","g","/","p","/","-">> \o MergeRequestsPath

UrlInQuery == <<"h","t","t","p","s",":","/","/","e","x","a","m","p","l","e",".","c","o","m","/","?","u","=","g","i","t","l","a","b",".","c","o","m","/","g","/","p","/","-">> \o MergeRequestsPath

UrlSubgroup == GitlabRoot \o <<"g","/","s","/","p","/","-">> \o MergeRequestsPath

UrlDoubleSlash == GitlabRoot \o <<"g","r","o","u","p","/","p","r","o","j","/">> \o MergeRequestsPath

UrlDiffs == UrlGroupProj \o <<"/","d","i","f","f","s">>

UrlLongerHost == <<"h","t","t","p","s",":","/","/","g","i","t","l","a","b",".","c","o","m",".","e","x","a","m","p","l","e",".","o","r","g","/","g","/","p","/","-">> \o MergeRequestsPath

UrlHttp == <<"h","t","t","p",":","/","/","g","i","t","l","a","b",".","c","o","m","/","g","r","o","u","p","/","p","r","o","j","/","-">> \o MergeRequestsPath

MrUrlForms ==
  {UrlGroupProj, UrlA, UrlFull, UrlOverfull, UrlHttp, UrlDiffs, UrlSubgroup,
   UrlNoDash, UrlDoubleSlash,
   UrlExample, UrlB, UrlNotGitlab, UrlLongerHost, UrlInQuery}

\* The field as a text area sends it: the URL alone, or followed by a line break.
MrForm(u, end) == [ItemOneMr EXCEPT !.product_id = None, !.mr_urls = u \o end]

MrForms == {MrForm(u, end) : u \in MrUrlForms, end \in {<<>>, <<"\r", "\n">>}}

\* One release exists and a user is about to submit one of the forms.
InitMrs ==
  /\ products = {}
  /\ releases = {ReleaseRow(1, ReleaseFeb)}
  /\ items = {}
  /\ mrs = {}
  /\ engine = Sqlite
  /\ inflight = NoRequests
  /\ \E f \in MrForms : last = Outcome("input", 0, f, "pending", Nothing)

\* The user creates items from the form and updates them with it again.
NextMrs ==
  \/ \E id \in RowIds :
       Room(items, MaxItems) /\ new_item(id, last.form) /\ \A m \in mrs' : m.id <= MaxMrId
  \/ \E id \in RowIds :
       edit_item(id, last.form) /\ \A m \in mrs' : m.id <= MaxMrId

SpecMrs == InitMrs /\ [][NextMrs]_vars

-----------------------------------------------------------------------------
(* Claims about merge-request extraction *)

\* The parts of s between its "/" characters.
RECURSIVE SplitSlash(_)
SplitSlash(s) ==
  LET cuts == {i \in 1..Len(s) : s[i] = "/"}
  IN IF cuts = {} THEN <<s>>
     ELSE LET i == CHOOSE k \in cuts : \A j \in cuts : k <= j
          IN <<SubSeq(s, 1, i - 1)>> \o SplitSlash(SubSeq(s, i + 1, Len(s)))

AllDigits(s) == s # <<>> /\ \A i \in 1..Len(s) : s[i] \in {"0","1","2","3","4","5","6","7","8","9"}

GitlabPath(u) == SplitSlash(SubSeq(u, Len(GitlabRoot) + 1, Len(u)))

\* https://gitlab.com/<group>/<project>/-/merge_requests/<digits>
IsDashForm(u) ==
  /\ StartsWith(u, GitlabRoot)
  /\ LET p == GitlabPath(u)
     IN /\ Len(p) = 5
        /\ p[1] # <<>> /\ p[2] # <<>>
        /\ p[3] = <<"-">>
        /\ p[4] = <<"m","e","r","g","e","_","r","e","q","u","e","s","t","s">>
        /\ AllDigits(p[5])

\* https://gitlab.com/<group>/<project>/merge_requests/<digits>
IsNoDashForm(u) ==
  /\ StartsWith(u, GitlabRoot)
  /\ LET p == GitlabPath(u)
     IN /\ Len(p) = 4
        /\ p[1] # <<>> /\ p[2] # <<>>
        /\ p[3] = <<"m","e","r","g","e","_","r","e","q","u","e","s","t","s">>
        /\ AllDigits(p[4])

GroupProject(u) == GitlabPath(u)[1] \o <<"/">> \o GitlabPath(u)[2]

BangDigits(u) == <<"!">> \o GitlabPath(u)[Len(GitlabPath(u))]

\* The text between "://" and the next "/".
Host(u) ==
  LET rest == IF StartsWith(u, HttpsPrefix) THEN SubSeq(u, Len(HttpsPrefix) + 1, Len(u))
              ELSE IF StartsWith(u, HttpPrefix) THEN SubSeq(u, Len(HttpPrefix) + 1, Len(u))
              ELSE u
  IN Head(SplitSlash(rest))

\* An item has just been created or updated from a form whose merge-request
\* field is the one line u, with or without its line break.
Saved(u) ==
  /\ last.op \in {"new_item", "edit_item"}
  /\ last.result = "ok"
  /\ Strip(last.form.mr_urls) = u

\* The saved item has exactly one merge request, with this repo and iid.
SavedMr(repo, iid) ==
  /\ Cardinality({m \in mrs : m.item_id = last.id}) = 1
  /\ \A m \in mrs : m.item_id = last.id => m.repo = repo /\ m.iid = iid

\* C17 as stated: a URL https://gitlab.com/<group>/<project>/-/merge_requests/<digits>
\* is stored with repo "<group>/<project>" and iid "!<digits>", on item creation
\* and on item update.
C17_DashFormExtracted ==
  \A u \in MrUrlForms :
    (Saved(u) /\ IsDashForm(u)) => SavedMr(Some(GroupProject(u)), Some(BangDigits(u)))

\* C17 amended: the same for such a URL of at most 300 characters.
C17_DashFormExtractedWhenNotCut ==
  \A u \in MrUrlForms :
    (Saved(u) /\ IsDashForm(u) /\ Len(u) <= 300)
      => SavedMr(Some(GroupProject(u)), Some(BangDigits(u)))

\* An item has been updated with https://gitlab.com/group/proj/-/merge_requests/42
\* and holds repo "group/proj" and iid "!42".
C17_Witness ==
  /\ last.op = "edit_item"
  /\ Saved(UrlGroupProj)
  /\ SavedMr(Some(<<"g","r","o","u","p","/","p","r","o","j">>), Some(<<"!","4","2">>))

\* C18: a URL https://gitlab.com/<group>/<project>/merge_requests/<digits>, without
\* the "-" segment, is stored with repo "<group>/<project>" and iid "!<digits>"
\* like the form with the "-" segment.
C18_DashOptional ==
  \A u \in MrUrlForms :
    (Saved(u) /\ IsNoDashForm(u)) => SavedMr(Some(GroupProject(u)), Some(BangDigits(u)))

\* C19: a URL whose host is not gitlab.com is stored as a merge request with
\* repo and iid absent.
C19_OtherHostsNotExtracted ==
  \A u \in MrUrlForms :
    (Saved(u) /\ Host(u) # <<"g","i","t","l","a","b",".","c","o","m">>) => SavedMr(None, None)

-----------------------------------------------------------------------------
(* Viewing a release, filtered by product *)

\* int(s), or None where int raises ValueError: surrounding whitespace, a sign,
\* then digits, with single underscores allowed between digits.
IntOrNone(s) ==
  LET t == Strip(s)
      signed == t # <<>> /\ t[1] \in {"+", "-"}
      body == IF signed THEN Tail(t) ELSE t
      wellFormed ==
        /\ body # <<>>
        /\ \A i \in 1..Len(body) : IsDigit(body[i]) \/ body[i] = "_"
        /\ IsDigit(body[1]) /\ IsDigit(body[Len(body)])
        /\ \A i \in 1..(Len(body) - 1) : ~(body[i] = "_" /\ body[i + 1] = "_")
      n == ToInt(SelectSeq(body, IsDigit))
  IN IF ~wellFormed THEN None
     ELSE IF signed /\ t[1] = "-" THEN Some(0 - n) ELSE Some(n)

\* r.items as a fresh session loads it: the release's rows in rowid order.
ItemsOf(release_id) == InIdOrder({it \in items : it.release_id = release_id})

\* Mutant: 0 is looked up like any other product identifier.
view_release_without_sentinel(release_id, arg) ==
  /\ release_id \in Ids(releases)
  /\ LET raw == IF arg = None THEN <<>> ELSE The(arg)
         selected_pid == IF raw = <<>> THEN None ELSE IntOrNone(raw)
         items_all == ItemsOf(release_id)
         Selected(it) == it.product_id = selected_pid
         items_filtered == IF selected_pid = None THEN items_all
                           ELSE SelectSeq(items_all, Selected)
     IN last' = Outcome("view_release", release_id,
                        [product_id |-> arg,
                         shown |-> [k \in 1..Len(items_filtered) |-> items_filtered[k].id],
                         total |-> Len(items_all)],
                        "ok", Nothing)
  /\ UNCHANGED <<products, releases, items, mrs, engine, inflight>>

\* GET /release/<release_id>?product_id=<arg>; arg is None when the parameter
\* is missing. The outcome lists the identifiers of items_filtered.
view_release(release_id, arg) ==
  /\ release_id \in Ids(releases)
  /\ LET raw == IF arg = None THEN <<>> ELSE The(arg)
         selected_pid == IF raw = <<>> THEN None ELSE IntOrNone(raw)
         items_all == ItemsOf(release_id)
         Unassigned(it) == it.product_id = None
         Selected(it) == it.product_id = selected_pid
         items_filtered == IF selected_pid = None THEN items_all
                           ELSE IF The(selected_pid) = 0 THEN SelectSeq(items_all, Unassigned)
                           ELSE SelectSeq(items_all, Selected)
     IN last' = Outcome("view_release", release_id,
                        [product_id |-> arg,
                         shown |-> [k \in 1..Len(items_filtered) |-> items_filtered[k].id],
                         total |-> Len(items_all)],
                        "ok", Nothing)
  /\ UNCHANGED <<products, releases, items, mrs, engine, inflight>>

\* Items that differ in their product only.
ItemOfProduct(pid) == [ItemZeroProduct EXCEPT !.product_id = pid]

ViewItemForms == {ItemOfProduct(None), ItemOfProduct(Some(0)), ItemOfProduct(Some(1)), ItemOfProduct(Some(2))}

ViewSelectors ==
  {None, Some(<<>>), Some(<<"0">>), Some(<<"1">>), Some(<<"2">>), Some(<<"3">>),
   Some(<<" ", "1">>), Some(<<"-", "0">>), Some(<<"+", "2">>),
   Some(<<"x">>), Some(<<"1", ".", "0">>), Some(<<"1", "_">>)}

\* Two products and two releases exist.
InitView ==
  /\ products = {ProductRow(1, ProductAy), ProductRow(2, ProductBx)}
  /\ releases = {ReleaseRow(1, ReleaseFeb), ReleaseRow(2, ReleaseMar)}
  /\ items = {}
  /\ mrs = {}
  /\ engine = Sqlite
  /\ inflight = NoRequests
  /\ last = Outcome("start", 0, NoForm, "ok", Nothing)

NextView ==
  \/ ItemOps(ViewItemForms, MaxItems)
  \/ \E id \in RowIds, arg \in ViewSelectors : view_release(id, arg)

SpecView == InitView /\ [][NextView]_vars

-----------------------------------------------------------------------------
(* Claims about viewing a release *)

\* The selectors that mean "all": missing, empty, or not an integer.
AllSelectors == {None, Some(<<>>), Some(<<"x">>), Some(<<"1", ".", "0">>), Some(<<"1", "_">>)}

\* The integer each of the other selectors stands for.
SelectorNumber(arg) ==
  CASE arg \in {Some(<<"0">>), Some(<<"-", "0">>)} -> 0
    [] arg \in {Some(<<"1">>), Some(<<" ", "1">>)} -> 1
    [] arg \in {Some(<<"2">>), Some(<<"+", "2">>)} -> 2
    [] arg = Some(<<"3">>) -> 3

\* The items a view of the release with this selector is to show, in stored order.
ToShow(release_id, arg) ==
  LET stored == InIdOrder({it \in items : it.release_id = release_id})
      NoProduct(it) == it.product_id = None
      OfProduct(it) == it.product_id = Some(SelectorNumber(arg))
      chosen == IF arg \in AllSelectors THEN stored
                ELSE IF SelectorNumber(arg) = 0 THEN SelectSeq(stored, NoProduct)
                ELSE SelectSeq(stored, OfProduct)
  IN [k \in 1..Len(chosen) |-> chosen[k].id]

\* C20: a view of a release shows, in stored order, all its items for the
\* selector "all", its items without product for the selector 0, its items of
\* that product for any other identifier, and leaves the stored state as it was.
C20_ViewFiltersByProduct ==
  [][last'.op = "view_release"
       => /\ last'.form.shown = ToShow(last'.id, last'.form.product_id)
          /\ UNCHANGED <<products, releases, items, mrs>>]_vars

\* A view with selector 0 has shown some of the release's items and left out others.
C20_Witness ==
  /\ last.op = "view_release"
  /\ last.form.product_id = Some(<<"0">>)
  /\ Len(last.form.shown) >= 1
  /\ Len(last.form.shown) < last.form.total

-----------------------------------------------------------------------------
(* Listing the releases, filtered by period and counted by product *)

\* a <= b on dates.
DateLeq(a, b) ==
  \/ a.y < b.y
  \/ a.y = b.y /\ a.m < b.m
  \/ a.y = b.y /\ a.m = b.m /\ a.d <= b.d

\* A period bound as the listing reads it: "none" when missing or empty,
\* "invalid" when parse_date_br raises, the date otherwise.
PeriodBound(x) ==
  IF x = None \/ The(x) = <<>> THEN [kind |-> "none"]
  ELSE LET parsed == parse_date_br(The(x))
       IN IF parsed.ok THEN [kind |-> "date", date |-> parsed.date] ELSE [kind |-> "invalid"]

\* ORDER BY release_date DESC: every order of the rows that is descending by
\* date; rows of equal date come in an order the engine chooses.
DescendingByDate(rows) ==
  {order \in [1..Cardinality(rows) -> rows] :
     /\ \A i, j \in 1..Cardinality(rows) : i # j => order[i] # order[j]
     /\ \A i, j \in 1..Cardinality(rows) :
          i < j => DateLeq(order[j].release_date, order[i].release_date)}

\* count_items of the release with this identifier.
count_items(release_id, selected_pid) ==
  IF selected_pid = None
  THEN Cardinality({it \in items : it.release_id = release_id})
  ELSE Cardinality({it \in items : it.release_id = release_id /\ it.product_id = selected_pid})

\* Mutant: the bounds are exclusive.
list_releases_exclusive(start, end, arg) ==
  LET raw_pid == IF arg = None THEN <<>> ELSE The(arg)
      selected_pid == IF raw_pid = <<>> THEN None ELSE IntOrNone(raw_pid)
      d1 == PeriodBound(start)
      d2 == PeriodBound(end)
      found == {r \in releases :
                  /\ d1.kind = "date" => ~DateLeq(r.release_date, d1.date)
                  /\ d2.kind = "date" => ~DateLeq(d2.date, r.release_date)}
      errors == (IF d1.kind = "invalid" THEN {"start_invalid"} ELSE {})
                  \cup (IF d2.kind = "invalid" THEN {"end_invalid"} ELSE {})
  IN /\ \E order \in DescendingByDate(found) :
          last' = Outcome("list_releases", 0,
                          [start |-> start, end |-> end, product_id |-> arg,
                           shown |-> [k \in 1..Len(order) |-> order[k].id],
                           counts |-> [k \in 1..Len(order) |-> count_items(order[k].id, selected_pid)],
                           errors |-> errors],
                          "ok", Nothing)
     /\ UNCHANGED <<products, releases, items, mrs, engine, inflight>>

\* GET /?start=<start>&end=<end>&product_id=<arg>; each is None when the
\* parameter is missing. The outcome lists the releases shown, the item count
\* shown with each, and the errors flashed.
list_releases(start, end, arg) ==
  LET raw_pid == IF arg = None THEN <<>> ELSE The(arg)
      selected_pid == IF raw_pid = <<>> THEN None ELSE IntOrNone(raw_pid)
      d1 == PeriodBound(start)
      d2 == PeriodBound(end)
      found == {r \in releases :
                  /\ d1.kind = "date" => DateLeq(d1.date, r.release_date)
                  /\ d2.kind = "date" => DateLeq(r.release_date, d2.date)}
      errors == (IF d1.kind = "invalid" THEN {"start_invalid"} ELSE {})
                  \cup (IF d2.kind = "invalid" THEN {"end_invalid"} ELSE {})
  IN /\ \E order \in DescendingByDate(found) :
          last' = Outcome("list_releases", 0,
                          [start |-> start, end |-> end, product_id |-> arg,
                           shown |-> [k \in 1..Len(order) |-> order[k].id],
                           counts |-> [k \in 1..Len(order) |-> count_items(order[k].id, selected_pid)],
                           errors |-> errors],
                          "ok", Nothing)
     /\ UNCHANGED <<products, releases, items, mrs, engine, inflight>>

Feb29 == <<"2","9","/","0","2","/","2","0","2","4">>

Mar01 == <<"0","1","/","0","3","/","2","0","2","4">>

Mar02 == <<"0","2","/","0","3","/","2","0","2","4">>

Feb31 == <<"3","1","/","0","2","/","2","0","2","4">>

IsoMar01 == <<"2","0","2","4","-","0","3","-","0","1">>

PeriodBounds == {None, Some(<<>>), Some(Feb29), Some(Mar01), Some(Mar02), Some(Feb31), Some(IsoMar01)}

\* The listing by period, over releases of 29/02/2024 and 01/03/2024.
NextList ==
  \/ ReleaseOps({ReleaseFeb, ReleaseMar}, MaxReleases)
  \/ \E start \in PeriodBounds, end \in PeriodBounds : list_releases(start, end, None)

SpecList == Init /\ [][NextList]_vars

\* The listing with its counts, over two releases and items of either product or none.
NextCount ==
  \/ ItemOps(ViewItemForms, MaxItems)
  \/ \E arg \in ViewSelectors : list_releases(None, None, arg)

SpecCount == InitView /\ [][NextCount]_vars

-----------------------------------------------------------------------------
(* Claims about the release listing *)

\* The number of the release's items a listing with this selector is to show.
ToCount(release_id, arg) ==
  LET mine == {it \in items : it.release_id = release_id}
  IN IF arg \in AllSelectors THEN Cardinality(mine)
     ELSE IF SelectorNumber(arg) = 0 THEN Cardinality({it \in mine : it.product_id = None})
     ELSE Cardinality({it \in mine : it.product_id = Some(SelectorNumber(arg))})

\* C21: the count listed with each release is the number of all its items
\* without product filter, of its items of the selected product with one, and
\* of its items without product for the selector 0.
C21_CountsFollowSelector ==
  last.op = "list_releases"
    => \A k \in 1..Len(last.form.shown) :
         last.form.counts[k] = ToCount(last.form.shown[k], last.form.product_id)

\* A date as the number yyyymmdd.
DateKey(d) == d.y * 10000 + d.m * 100 + d.d

\* The date each valid bound stands for.
BoundKey(x) ==
  CASE x = Some(Feb29) -> 20240229
    [] x = Some(Mar01) -> 20240301
    [] x = Some(Mar02) -> 20240302

ValidBounds == {Some(Feb29), Some(Mar01), Some(Mar02)}

InvalidBounds == {Some(Feb31), Some(IsoMar01)}

InPeriod(r, start, end) ==
  /\ start \in ValidBounds => BoundKey(start) <= DateKey(r.release_date)
  /\ end \in ValidBounds => DateKey(r.release_date) <= BoundKey(end)

\* C22: the listing shows exactly the releases dated within the valid bounds,
\* both inclusive, each once, latest first; a missing bound sets no limit, and
\* a bound that is no date is reported and otherwise ignored.
C22_ListedWithinPeriod ==
  last.op = "list_releases"
    => LET shown == last.form.shown
       IN /\ {shown[k] : k \in 1..Len(shown)}
               = {r.id : r \in {q \in releases : InPeriod(q, last.form.start, last.form.end)}}
          /\ \A i, j \in 1..Len(shown) : i # j => shown[i] # shown[j]
          /\ \A i, j \in 1..Len(shown) :
               i < j => DateKey(Row(releases, shown[i]).release_date)
                          >= DateKey(Row(releases, shown[j]).release_date)
          /\ ("start_invalid" \in last.form.errors) <=> (last.form.start \in InvalidBounds)
          /\ ("end_invalid" \in last.form.errors) <=> (last.form.end \in InvalidBounds)

\* A listing from 29/02/2024 with an end that is no date has reported the end
\* and shown both releases, the later one first.
C22_Witness ==
  /\ last.op = "list_releases"
  /\ last.form.start = Some(Feb29)
  /\ last.form.end = Some(Feb31)
  /\ last.form.errors = {"end_invalid"}
  /\ Len(last.form.shown) = 2
  /\ Row(releases, last.form.shown[1]).release_date # Row(releases, last.form.shown[2]).release_date

-----------------------------------------------------------------------------
(* Claims about the active attribute *)

\* C23: a product created from a form without a value for active is stored
\* as active.
C23_ActiveByDefault ==
  (last.op = "new_product" /\ last.result = "ok" /\ last.form.active = None)
    => \E p \in products : p.id = last.id /\ p.active = TRUE

-----------------------------------------------------------------------------
(* Updating an item, as requests that overlap *)

\* The other requests that hold an open write transaction.
Writers(c) == {o \in Clients \ {c} : inflight[o].pc = "written"}

\* The UPDATE the session flushes sets only the columns whose value differs
\* from the one the request loaded.
FlushedRow(current, seen, new) ==
  [col \in DOMAIN new |-> IF new[col] # seen[col] THEN new[col] ELSE current[col]]

\* get_or_404, the form and its validation: no transaction is open yet.
BeginEditItem(c, item_id, f) ==
  /\ inflight[c].pc = "idle"
  /\ item_id \in Ids(items)
  /\ LET result == ItemResult(f)
     IN IF result = "ok"
        THEN /\ inflight' = [inflight EXCEPT ![c] =
                               [pc |-> "loaded", op |-> "edit_item", id |-> item_id, form |-> f,
                                seen |-> Row(items, item_id)]]
             /\ UNCHANGED last
        ELSE /\ inflight' = [inflight EXCEPT ![c] =
                               [pc |-> "failed", op |-> "edit_item", id |-> item_id, form |-> f,
                                result |-> result]]
             /\ last' = Outcome("edit_item", item_id, f, result, Nothing)
  /\ UNCHANGED <<products, releases, items, mrs, engine>>

\* MergeRequest.query.filter_by(item_id=it.id).delete(): the session first
\* flushes the item's UPDATE, then the DELETE runs, both in a transaction that
\* stays open. SQLite admits one write transaction at a time. PostgreSQL, at
\* READ COMMITTED, makes the UPDATE wait for another uncommitted UPDATE of the
\* row, and lets the DELETE see the committed rows only: where another open
\* transaction has deleted some of them, it finishes after that one commits.
WriteEditItem(c) ==
  /\ inflight[c].pc = "loaded"
  /\ inflight[c].id \in Ids(items)
  /\ LET r == inflight[c]
         new == ItemRow(r.id, r.seen.release_id, r.form)
         updated == new # r.seen
         visible == {m \in mrs : m.item_id = r.id}
         rowLocked == \E o \in Writers(c) : inflight[o].id = r.id /\ inflight[o].updated
         after == {o \in Writers(c) : inflight[o].deleted \cap visible # {}}
     IN /\ IF engine.name = "sqlite" THEN Writers(c) = {} ELSE ~(updated /\ rowLocked)
        /\ inflight' = [inflight EXCEPT ![c] =
                          [pc |-> "written", op |-> r.op, id |-> r.id, form |-> r.form,
                           seen |-> r.seen, deleted |-> visible, updated |-> updated,
                           after |-> IF engine.name = "sqlite" THEN {} ELSE after]]
  /\ UNCHANGED <<products, releases, items, mrs, last, engine>>

\* The loop that adds the submitted merge requests, and db.session.commit():
\* the INSERTs are flushed and the transaction commits.
CommitEditItem(c) ==
  /\ inflight[c].pc = "written"
  /\ \A o \in inflight[c].after : inflight[o].pc # "written"
  /\ LET r == inflight[c]
         current == Row(items, r.id)
         kept == mrs \ r.deleted
         urls == MrUrls(SplitLines(r.form.mr_urls))
         rows == IF engine.name = "sqlite"
                 THEN NewMrs(r.id, urls, kept)
                 ELSE {MrRow(engine.mr_seq + k, r.id, urls[k]) : k \in 1..Len(urls)}
     IN /\ items' = (items \ {current})
                      \cup {FlushedRow(current, r.seen, ItemRow(r.id, r.seen.release_id, r.form))}
        /\ mrs' = kept \cup rows
        /\ engine' = IF engine.name = "sqlite" THEN engine
                     ELSE Postgresql(engine.mr_seq + Len(urls))
        /\ last' = Outcome("edit_item", r.id, r.form, "ok", <<0, Cardinality(mrs \ kept)>>)
        /\ inflight' = [inflight EXCEPT ![c] =
                          [pc |-> "done", op |-> r.op, id |-> r.id, form |-> r.form,
                           result |-> "ok"]]
  /\ UNCHANGED <<products, releases>>

\* SQLite gives up on a write that waits too long for the other transaction:
\* the request fails with "database is locked" and changes nothing.
BusyTimeout(c) ==
  /\ engine.name = "sqlite"
  /\ inflight[c].pc = "loaded"
  /\ Writers(c) # {}
  /\ inflight' = [inflight EXCEPT ![c] =
                    [pc |-> "failed", op |-> inflight[c].op, id |-> inflight[c].id,
                     form |-> inflight[c].form, result |-> "database_locked"]]
  /\ last' = Outcome(inflight[c].op, inflight[c].id, inflight[c].form, "database_locked", Nothing)
  /\ UNCHANGED <<products, releases, items, mrs, engine>>

\* The stored item's own form, the same with another merge request, and a
\* form that changes the item's fields as well.
ItemRaceForms == {ItemOneMr, [ItemOneMr EXCEPT !.mr_urls = UrlA], ItemTwoMrs}

\* One item with one merge request exists, on either engine.
InitItemRace ==
  /\ products = {ProductRow(1, ProductAy)}
  /\ releases = {ReleaseRow(1, ReleaseFeb)}
  /\ items = {ItemRow(1, 1, ItemOneMr)}
  /\ mrs = NewMrs(1, MrUrls(SplitLines(ItemOneMr.mr_urls)), {})
  /\ engine \in {Sqlite, Postgresql(1)}
  /\ inflight = NoRequests
  /\ last = Outcome("start", 0, NoForm, "ok", Nothing)

\* Each client sends one update of the item.
NextItemRace ==
  \/ \E c \in Clients, f \in ItemRaceForms : BeginEditItem(c, 1, f)
  \/ \E c \in Clients : WriteEditItem(c)
  \/ \E c \in Clients : CommitEditItem(c)
  \/ \E c \in Clients : BusyTimeout(c)

SpecItemRace == InitItemRace /\ [][NextItemRace]_vars

-----------------------------------------------------------------------------
(* Claims about overlapping updates of an item *)

\* The requests that have updated the item and committed.
Committed(item_id) ==
  {c \in Clients : /\ inflight[c].pc = "done"
                   /\ inflight[c].op = "edit_item"
                   /\ inflight[c].id = item_id}

\* The item's merge requests are those of this form, one for each line.
HoldsListOf(item_id, f) ==
  LET mine == {m \in mrs : m.item_id = item_id}
      urls == SubmittedUrls(f.mr_urls)
  IN /\ {m.url : m \in mine} = {urls[k] : k \in 1..Len(urls)}
     /\ Cardinality(mine) = Len(urls)

\* C24: once overlapping updates of an item have all ended, the item's merge
\* requests are the list one of the committed updates submitted, never a union
\* or a mixture of lists.
C24_LastWriteWins ==
  \A it \in items :
    (/\ \A c \in Clients : inflight[c].pc \notin {"loaded", "written"}
     /\ Committed(it.id) # {})
      => \E c \in Committed(it.id) : HoldsListOf(it.id, inflight[c].form)

-----------------------------------------------------------------------------
(* Creating and updating products, as requests that overlap *)

\* The form's validation and the two uniqueness queries, read from what is
\* committed; the UNIQUE constraints are not consulted before the commit.
ProductChecks(f, self) ==
  LET result == ProductResult(f, self)
  IN IF result = "integrity_error" THEN "ok" ELSE result

BeginNewProduct(c, f) ==
  /\ inflight[c].pc = "idle"
  /\ LET result == ProductChecks(f, {})
     IN IF result = "ok"
        THEN /\ inflight' = [inflight EXCEPT ![c] =
                               [pc |-> "checked", op |-> "new_product", id |-> 0, form |-> f]]
             /\ UNCHANGED last
        ELSE /\ inflight' = [inflight EXCEPT ![c] =
                               [pc |-> "failed", op |-> "new_product", id |-> 0, form |-> f,
                                result |-> result]]
             /\ last' = Outcome("new_product", 0, f, result, Nothing)
  /\ UNCHANGED <<products, releases, items, mrs, engine>>

\* db.session.add(p) and db.session.commit(): the INSERT meets the UNIQUE
\* constraints and commits, or raises IntegrityError.
CommitNewProduct(c) ==
  /\ inflight[c].pc = "checked"
  /\ inflight[c].op = "new_product"
  /\ LET f == inflight[c].form
         id == NextId(products)
         result == IF UniqueConstraintFails(Strip(f.name), Strip(f.code), {})
                   THEN "integrity_error" ELSE "ok"
     IN /\ products' = IF result = "ok" THEN products \cup {ProductRow(id, f)} ELSE products
        /\ last' = Outcome("new_product", IF result = "ok" THEN id ELSE 0, f, result, Nothing)
        /\ inflight' = [inflight EXCEPT ![c] =
                          [pc |-> IF result = "ok" THEN "done" ELSE "failed",
                           op |-> "new_product", id |-> IF result = "ok" THEN id ELSE 0,
                           form |-> f, result |-> result]]
  /\ UNCHANGED <<releases, items, mrs, engine>>

BeginEditProduct(c, product_id, f) ==
  /\ inflight[c].pc = "idle"
  /\ product_id \in Ids(products)
  /\ LET result == ProductChecks(f, {product_id})
     IN IF result = "ok"
        THEN /\ inflight' = [inflight EXCEPT ![c] =
                               [pc |-> "checked", op |-> "edit_product", id |-> product_id,
                                form |-> f, seen |-> Row(products, product_id)]]
             /\ UNCHANGED last
        ELSE /\ inflight' = [inflight EXCEPT ![c] =
                               [pc |-> "failed", op |-> "edit_product", id |-> product_id,
                                form |-> f, result |-> result]]
             /\ last' = Outcome("edit_product", product_id, f, result, Nothing)
  /\ UNCHANGED <<products, releases, items, mrs, engine>>

\* db.session.commit() after the assignments: the UPDATE of the changed
\* columns meets the UNIQUE constraints and commits, or raises IntegrityError.
CommitEditProduct(c) ==
  /\ inflight[c].pc = "checked"
  /\ inflight[c].op = "edit_product"
  /\ inflight[c].id \in Ids(products)
  /\ LET r == inflight[c]
         current == Row(products, r.id)
         row == FlushedRow(current, r.seen, ProductRow(r.id, r.form))
         result == IF row # current /\ UniqueConstraintFails(row.name, row.code, {r.id})
                   THEN "integrity_error" ELSE "ok"
     IN /\ products' = IF result = "ok" THEN (products \ {current}) \cup {row} ELSE products
        /\ last' = Outcome("edit_product", r.id, r.form, result, Nothing)
        /\ inflight' = [inflight EXCEPT ![c] =
                          [pc |-> IF result = "ok" THEN "done" ELSE "failed",
                           op |-> "edit_product", id |-> r.id, form |-> r.form,
                           result |-> result]]
  /\ UNCHANGED <<releases, items, mrs, engine>>

ProductRaceForms == {ProductAx, ProductAy, ProductBx}

\* One product exists, on the default engine.
InitProductRace ==
  /\ products = {ProductRow(1, ProductBx)}
  /\ releases = {}
  /\ items = {}
  /\ mrs = {}
  /\ engine = Sqlite
  /\ inflight = NoRequests
  /\ last = Outcome("start", 0, NoForm, "ok", Nothing)

\* Each client sends one request that creates or updates a product.
NextProductRace ==
  \/ \E c \in Clients, f \in ProductRaceForms : BeginNewProduct(c, f)
  \/ \E c \in Clients : CommitNewProduct(c)
  \/ \E c \in Clients, id \in RowIds, f \in ProductRaceForms : BeginEditProduct(c, id, f)
  \/ \E c \in Clients : CommitEditProduct(c)

SpecProductRace == InitProductRace /\ [][NextProductRace]_vars

-----------------------------------------------------------------------------
(* Claims about overlapping product requests *)

\* C25: whatever way requests that create or update products overlap, every
\* stored product is the only one with its name, and the only one with its
\* code, ignoring letter case.
C25_UniqueDespiteOverlap ==
  \A p \in products :
    /\ Cardinality({q \in products : EqIgnoreCase(q.name, p.name)}) = 1
    /\ Cardinality({q \in products : EqIgnoreCase(q.code, p.code)}) = 1

====
